---------------------------- MODULE Spec2Model ----------------------------
(***************************************************************************)
(* Model of the command dispatcher of pkg/v2/cli (cli.go): the command     *)
(* tree, the Formatter strategies, the Data envelopes and the operations   *)
(* Run, RunWithCommand, runCommand and Help; and of the library functions  *)
(* beside it: ParseArgs and InputFromModel (helper.go),                    *)
(* TimePeriodHumanReadable (formatter.go) and the SignalDispatcher         *)
(* (package signal).  Each has a specification of its own: Spec and        *)
(* SpecCalls for the dispatcher, SpecParseArgs, SpecInputFromModel,        *)
(* SpecPeriod and SpecSignal; the variables of the others stay idle.       *)
(*                                                                         *)
(* Strings are Go strings (TLC strings, with \o, Len and SubSeq).           *)
(***************************************************************************)
EXTENDS Integers, Sequences, FiniteSets, TLC

VARIABLES
    Commands,   \* CliRoot.Commands: NilSlice or a sequence of node ids
    Ctx,        \* CliRoot.Ctx: the opaque context of the embedding application
    Formatter,  \* CliRoot.Formatter: "text", "json" or "custom"
    argv,       \* the command line the caller has assembled (os.Args[1:])
    op,         \* the operation that ran last: "none", "Run", "RunWithCommand"
    data,       \* the Data runCommand returned (NilData for nil)
    err,        \* the error runCommand returned (its text; Nil for nil)
    invoked,    \* the leaf actions that operation invoked: <<[cmd, args, ctx]>>
    levels,     \* the runCommand calls it made: <<[commands, args, filteredArgs]>>
    stdout,     \* the lines it wrote to os.Stdout
    stderr,     \* the lines it wrote to os.Stderr
    exitCode,   \* 1 after os.Exit(1); 0 while the process runs (the status it
                \* ends with when main returns)
    \* ParseArgs
    args,       \* the argument slice handed to ParseArgs
    argMap,     \* the map it returned
    parsePc,    \* "idle", "call" (about to be called) or "done" (returned)
    \* InputFromModel (argMap being the map it is handed)
    model,      \* the struct behind the pointer it is handed: its fields
    stdin,      \* the lines waiting on os.Stdin
    bind,       \* what the call left: the struct, the lines not read, what
                \* it printed, the keys it looked up, the error it returned
    bindPc,     \* "idle", "call" or "done"
    \* TimePeriodHumanReadable
    seconds,    \* the int32 it is handed
    period,     \* the string it returned
    periodPc,   \* "idle", "call" or "done"
    \* SignalDispatcher
    listeners,  \* d.listeners: the callbacks of each signal that has some
    lock,       \* d.lock: the goroutine that holds it, << >> when it is free
    gor,        \* the goroutines: the callers and one per callback started
    ems,        \* the calls of Emit: arguments, locals and WaitGroup, each
                \* kept until its goroutine is gone or calls again
    regs,       \* the callbacks whose Connect has returned, per signal
    calls       \* the number of calls the callers have made

cliVars == <<Commands, Ctx, Formatter, argv, op, data, err, invoked,
             levels, stdout, stderr, exitCode>>
parseVars == <<args, argMap, parsePc>>
bindVars == <<model, stdin, bind, bindPc>>
periodVars == <<seconds, period, periodPc>>
signalVars == <<listeners, lock, gor, ems, regs, calls>>

\* The variables of the library functions beside the dispatcher.
libVars == <<parseVars, bindVars, periodVars, signalVars>>

vars == <<cliVars, libVars>>

\* The nil error.
Nil == "<nil>"

\* The nil slice of commands, told apart from the empty slice << >> (node
\* ids start at 1); Elems gives the elements a range loop visits.
NilSlice == <<0>>
Elems(commands) == IF commands = NilSlice THEN <<>> ELSE commands

\* The nil Data.
NilData == [type |-> "nil"]

\* make(map[string]string), and m[k] = v on a map.
EmptyMap == [k \in {} |-> ""]
MapSet(m, k, v) == [x \in DOMAIN m \cup {k} |-> IF x = k THEN v ELSE m[x]]

\* The dispatcher is not in use.
CliIdle ==
    /\ Commands = NilSlice /\ Ctx = "ctxA" /\ Formatter = "text"
    /\ argv = <<>> /\ op = "none" /\ data = NilData /\ err = Nil
    /\ invoked = <<>> /\ levels = <<>> /\ stdout = <<>> /\ stderr = <<>>
    /\ exitCode = 0

\* ParseArgs is not in use.
ParseIdle == args = <<>> /\ argMap = EmptyMap /\ parsePc = "idle"

\* What InputFromModel has at its first statement, handed the struct m
\* with the lines in on os.Stdin.
Entered(m, in) ==
    [model |-> m, stdin |-> in, printed |-> <<>>, lookups |-> <<>>,
     err |-> Nil, failed |-> 0]

\* InputFromModel is not in use.
BindIdle ==
    /\ model = <<>> /\ stdin = <<>> /\ bind = Entered(<<>>, <<>>)
    /\ bindPc = "idle"

\* TimePeriodHumanReadable is not in use.
PeriodIdle == seconds = 0 /\ period = "" /\ periodPc = "idle"

\* The signals of the application.
Signals == {"a", "b"}

\* NewSignalDispatcher(): make(map[Signal][]Callback), the lock free.
NoListeners == [s \in {} |-> <<>>]
NewSignalDispatcher ==
    /\ listeners = NoListeners
    /\ lock = <<>>
    /\ ems = [g \in {} |-> <<>>]
    /\ regs = [s \in Signals |-> <<>>]
    /\ calls = 0

\* No SignalDispatcher is in use.
SignalIdle == NewSignalDispatcher /\ gor = [g \in {} |-> <<>>]

\* No library function beside the dispatcher is in use.
LibIdle == ParseIdle /\ BindIdle /\ PeriodIdle /\ SignalIdle

\* Longest command line the caller assembles.
MaxArgs == 3

(***************************************************************************)
(* Inputs.                                                                 *)
(***************************************************************************)

\* The tokens a command line is made of: command names, a plain argument,
\* the json flags, the help triggers and two flags that only start like the
\* json flag.  None holds a character json.Marshal escapes, nor whitespace.
Tokens ==
    {"version", "sub", "x", "-json", "--json", "-help", "--help",
     "-jsonfile", "--json=pretty"}


\* The command nodes the embedding application declares.  Commands is the
\* child sequence (NilSlice for a leaf), Run names the node's action.  The
\* children of node 7 hold node 7 itself (the application set the field
\* after it had the pointer): a tree that refers back to an ancestor.
Node ==
    [n \in 1..7 |->
        CASE n = 1 -> [Use |-> "version", Short |-> "Print the version",
                       Commands |-> NilSlice, Run |-> "v1"]
          [] n = 2 -> [Use |-> "sub", Short |-> "Sub commands",
                       Commands |-> <<3>>, Run |-> "own"]
          [] n = 3 -> [Use |-> "version", Short |-> "",
                       Commands |-> NilSlice, Run |-> "subversion"]
          [] n = 4 -> [Use |-> "version", Short |-> "Broken version",
                       Commands |-> NilSlice, Run |-> "boom"]
          [] n = 5 -> [Use |-> "sub", Short |-> "Nothing below",
                       Commands |-> <<>>, Run |-> "own"]
          [] n = 6 -> [Use |-> "x", Short |-> "Says nothing",
                       Commands |-> NilSlice, Run |-> "nothing"]
          [] n = 7 -> [Use |-> "sub", Short |-> "Sub commands again",
                       Commands |-> <<7, 1>>, Run |-> "own"]]

\* The embedding applications: the context and the top-level command
\* sequence each constructs its dispatcher with.
Apps ==
    {[ctx |-> "ctxA", cmds |-> NilSlice],
     [ctx |-> "ctxB", cmds |-> <<>>],
     [ctx |-> "ctxA", cmds |-> <<1>>],
     [ctx |-> "ctxB", cmds |-> <<1, 2>>],
     [ctx |-> "ctxA", cmds |-> <<4, 1>>],
     [ctx |-> "ctxB", cmds |-> <<5, 6>>],
     [ctx |-> "ctxA", cmds |-> <<7>>]}

(***************************************************************************)
(* Data envelopes and Formatters.                                          *)
(***************************************************************************)

DataMessage(m) == [type |-> "DataMessage", Message |-> m]
DataList(t, items) == [type |-> "DataList", Title |-> t, Items |-> items]
DataDetails(t, item) == [type |-> "DataDetails", Title |-> t, Item |-> item]
DataError(m) == [type |-> "DataError", Message |-> m]

\* The result of Format and Display: (string, error).
Rendered(s) == [out |-> s, err |-> Nil]
RenderFailed(e) == [out |-> "", err |-> e]

RECURSIVE Join(_, _)
\* strings.Join(a, sep)
Join(a, sep) ==
    IF a = <<>> THEN ""
    ELSE IF Len(a) = 1 THEN a[1]
    ELSE a[1] \o sep \o Join(Tail(a), sep)

\* The keys the envelopes of this model use, in byte order: json.Marshal
\* writes the keys of a map sorted.
KnownKeys == <<"Short", "Use">>
SortedKeys(item) == SelectSeq(KnownKeys, LAMBDA k : k \in DOMAIN item)

\* The orders in which `for k, v := range item` may visit a map.
KeyOrders(item) ==
    LET n == Cardinality(DOMAIN item)
    IN  {o \in [1..n -> DOMAIN item] : \A i, j \in 1..n : o[i] = o[j] => i = j}

\* json.Marshal of a string and of a map[string]string.
JSONString(s) == "\"" \o s \o "\""
JSONMap(item) ==
    LET ks == SortedKeys(item)
    IN  "{" \o Join([i \in 1..Len(ks) |->
                        JSONString(ks[i]) \o ":" \o JSONString(item[ks[i]])], ",")
            \o "}"

\* JSONFormatter.Format: json.Marshal with the struct tags of the envelope.
JSONFormat(d) ==
    CASE d.type = "DataMessage" ->
            "{" \o JSONString("message") \o ":" \o JSONString(d.Message) \o "}"
      [] d.type = "DataError" ->
            "{" \o JSONString("error") \o ":" \o JSONString(d.Message) \o "}"
      [] d.type = "DataList" ->
            "{" \o JSONString("title") \o ":" \o JSONString(d.Title) \o ","
                \o JSONString("items") \o ":["
                \o Join([i \in 1..Len(d.Items) |-> JSONMap(d.Items[i])], ",")
                \o "]}"
      [] d.type = "DataDetails" ->
            "{" \o JSONString("title") \o ":" \o JSONString(d.Title) \o ","
                \o JSONString("item") \o ":" \o JSONMap(d.Item) \o "}"

\* The "k: v" lines DataList.Error and DataDetails.Error add for one map,
\* visited in the order o.
ItemLines(item, o) == [i \in 1..Len(o) |-> o[i] \o ": " \o item[o[i]]]

RECURSIVE ListLines(_)
\* The lines DataList.Error may collect for its items.
ListLines(items) ==
    IF items = <<>> THEN {<<>>}
    ELSE {ItemLines(Head(items), o) \o rest :
            o \in KeyOrders(Head(items)), rest \in ListLines(Tail(items))}

\* The strings d.Error() may return, for the envelopes that are errors.
ErrorText(d) ==
    CASE d.type = "DataError" -> {d.Message}
      [] d.type = "DataList" ->
            {Join(<<d.Title>> \o ls, "\n") : ls \in ListLines(d.Items)}
      [] d.type = "DataDetails" ->
            {Join(<<d.Title>> \o ItemLines(d.Item, o), "\n") :
                o \in KeyOrders(d.Item)}

\* TextFormatter.Format: fmt.Sprintf("%v", data) of the pointer to the
\* envelope; %v prints Error() for a value that is an error.
TextFormat(d) ==
    IF d.type = "DataMessage" THEN {"&{" \o d.Message \o "}"}
    ELSE ErrorText(d)

\* formatter.Format(data): the results it may return.  "custom" is a
\* Formatter of the embedding application whose Format fails.
Format(formatter, d) ==
    CASE formatter = "json" -> {Rendered(JSONFormat(d))}
      [] formatter = "text" -> {Rendered(s) : s \in TextFormat(d)}
      [] formatter = "custom" -> {RenderFailed("format failed")}

\* DataMessage.Display, were it to go through the Formatter as the other
\* envelopes do.
DisplayMessageFormatted(d, formatter) == Format(formatter, d)

\* DataMessage.Display
DisplayMessage(d, formatter) == {Rendered(d.Message)}

\* Data.Display(formatter), by the type of the envelope.
Display(d, formatter) ==
    IF d.type = "DataMessage" THEN DisplayMessage(d, formatter)
    ELSE Format(formatter, d)

(***************************************************************************)
(* The dispatcher.                                                         *)
(***************************************************************************)

\* strings.HasPrefix(s, prefix)
HasPrefix(s, prefix) ==
    Len(s) >= Len(prefix) /\ SubSeq(s, 1, Len(prefix)) = prefix

Whitespace == {" ", "\t", "\n", "\r", "\f"}

RECURSIVE FieldsFrom(_, _, _)
\* The fields of s from position i on, cur being the field read so far.
FieldsFrom(s, i, cur) ==
    LET done == IF cur = "" THEN <<>> ELSE <<cur>>
    IN  IF i > Len(s) THEN done
        ELSE IF SubSeq(s, i, i) \in Whitespace
             THEN done \o FieldsFrom(s, i + 1, "")
             ELSE FieldsFrom(s, i + 1, cur \o SubSeq(s, i, i))

\* strings.Fields(s)
Fields(s) == FieldsFrom(s, 1, "")

\* The loop of runCommand over args: the arguments it keeps.
FilterArgs(as) ==
    SelectSeq(as, LAMBDA arg :
        ~HasPrefix(arg, "-json") /\ ~HasPrefix(arg, "--json"))

\* The loop of runCommand, were it to know the flag -json only.
ScanFormatterSingleDash(as, formatter) ==
    IF \E i \in 1..Len(as) : as[i] = "-json" THEN "json" ELSE formatter

\* The loop of runCommand, were it to choose the Formatter anew at each call.
ScanFormatterPerCall(as, formatter) ==
    IF \E i \in 1..Len(as) : as[i] = "-json" \/ as[i] = "--json"
    THEN "json"
    ELSE "text"

\* The loop of runCommand over args: c.Formatter after it.
ScanFormatter(as, formatter) ==
    IF \E i \in 1..Len(as) :
            /\ HasPrefix(as[i], "-json") \/ HasPrefix(as[i], "--json")
            /\ as[i] = "-json" \/ as[i] = "--json"
    THEN "json"
    ELSE formatter

\* Help, were it to list the commands last to first.
HelpReversed(root, commands) ==
    IF root = NilSlice THEN DataMessage("No commands found")
    ELSE LET n == Len(Elems(commands))
         IN  DataList("Available commands",
                      [i \in 1..n |->
                          [Use |-> Node[commands[n + 1 - i]].Use,
                           Short |-> Node[commands[n + 1 - i]].Short]])

\* CliRoot.Help(commands), root being c.Commands.
Help(root, commands) ==
    IF root = NilSlice THEN DataMessage("No commands found")
    ELSE DataList("Available commands",
                  [i \in 1..Len(Elems(commands)) |->
                      [Use |-> Node[commands[i]].Use,
                       Short |-> Node[commands[i]].Short]])

\* The loop of runCommand, were it to go on to the last command of the name.
FindCommandLast(commands, name) ==
    LET cs == Elems(commands)
    IN  IF \E i \in 1..Len(cs) : Node[cs[i]].Use = name
        THEN CHOOSE i \in 1..Len(cs) :
                /\ Node[cs[i]].Use = name
                /\ \A j \in (i + 1)..Len(cs) : Node[cs[j]].Use # name
        ELSE 0

\* The position of the command the loop of runCommand stops at: the first
\* one whose Use is name, 0 when the loop ends without a match.
FindCommand(commands, name) ==
    LET cs == Elems(commands)
    IN  IF \E i \in 1..Len(cs) : Node[cs[i]].Use = name
        THEN CHOOSE i \in 1..Len(cs) :
                /\ Node[cs[i]].Use = name
                /\ \A j \in 1..(i - 1) : Node[cs[j]].Use # name
        ELSE 0

\* The leaf test, were it to ask for an action instead: cmd.Run != nil
IsLeafByAction(cmd) == Node[cmd].Run # Nil

\* cmd.Commands == nil
IsLeaf(cmd) == Node[cmd].Commands = NilSlice

\* The error, were it to name the last token instead of the first.
CommandNotFoundLast(filteredArgs) ==
    "command " \o filteredArgs[Len(filteredArgs)] \o " not found"

\* fmt.Errorf("command %s not found", filteredArgs[0])
CommandNotFound(filteredArgs) == "command " \o filteredArgs[1] \o " not found"

\* What the Run function of a node returns: (Data, error).
RunAction(run, cmd, as, ctx) ==
    CASE run = "v1" -> [data |-> DataMessage("v1"), err |-> Nil]
      [] run = "subversion" ->
            [data |-> DataMessage("Sub Version: 1.0.0"), err |-> Nil]
      [] run = "own" -> [data |-> DataMessage("sub"), err |-> Nil]
      [] run = "boom" -> [data |-> NilData, err |-> "boom"]
      [] run = "nothing" -> [data |-> NilData, err |-> Nil]

\* The arguments of the recursive call, were they cut from args.
DescentArgsUnfiltered(as, filteredArgs) == Tail(as)

\* The arguments of the recursive call of runCommand: filteredArgs[1:]
DescentArgs(as, filteredArgs) == Tail(filteredArgs)

\* What runCommand hands to the Run function of the leaf cmd.
Invocation(cmd, filteredArgs, ctx) ==
    [cmd |-> cmd, args |-> Tail(filteredArgs), ctx |-> ctx]

RECURSIVE runCommand(_, _, _, _, _)
\* CliRoot.runCommand(commands, args) on a dispatcher whose Commands is root,
\* whose Formatter is formatter and whose Ctx is ctx.  The result holds the
\* (Data, error) returned, c.Formatter after the call, the actions invoked
\* and the calls of runCommand made, outermost first.
runCommand(root, commands, as, formatter, ctx) ==
    LET filteredArgs == FilterArgs(as)
        f == ScanFormatter(as, formatter)
        level == [commands |-> commands, args |-> as,
                  filteredArgs |-> filteredArgs]
        help == [data |-> Help(root, commands), err |-> Nil, formatter |-> f,
                 invoked |-> <<>>, levels |-> <<level>>]
    IN  IF Len(filteredArgs) = 0 THEN help
        ELSE IF filteredArgs[1] = "-help" \/ filteredArgs[1] = "--help" THEN help
        ELSE LET i == FindCommand(commands, filteredArgs[1])
             IN  IF i = 0
                 THEN [data |-> NilData, err |-> CommandNotFound(filteredArgs),
                       formatter |-> f, invoked |-> <<>>, levels |-> <<level>>]
                 ELSE IF IsLeaf(commands[i])
                 THEN LET call == Invocation(commands[i], filteredArgs, ctx)
                          r == RunAction(Node[call.cmd].Run, call.cmd,
                                         call.args, call.ctx)
                      IN  [data |-> r.data, err |-> r.err, formatter |-> f,
                           invoked |-> <<call>>, levels |-> <<level>>]
                 ELSE LET r == runCommand(root, Node[commands[i]].Commands,
                                          DescentArgs(as, filteredArgs),
                                          f, ctx)
                      IN  [r EXCEPT !.levels = <<level>> \o @]

\* Run, were it to print the rendered error with fmt.Println.
RunOutputToStdout(r) ==
    IF r.err # Nil
    THEN {IF v.err # Nil
          THEN [stdout |-> <<v.err>>, stderr |-> <<>>, exitCode |-> 1]
          ELSE [stdout |-> <<v.out>>, stderr |-> <<>>, exitCode |-> 1] :
            v \in Display(DataError(r.err), r.formatter)}
    ELSE IF r.data # NilData
    THEN {[stdout |-> <<v1.out>>, stderr |-> <<>>, exitCode |-> 0] :
            v1 \in Display(r.data, r.formatter)}
    ELSE {[stdout |-> <<>>, stderr |-> <<>>, exitCode |-> 0]}

\* What Run writes and whether it exits, for the result r of runCommand.
RunOutput(r) ==
    IF r.err # Nil
    THEN {IF v.err # Nil
          THEN [stdout |-> <<v.err>>, stderr |-> <<>>, exitCode |-> 1]
          ELSE [stdout |-> <<>>, stderr |-> <<v.out>>, exitCode |-> 1] :
            v \in Display(DataError(r.err), r.formatter)}
    ELSE IF r.data # NilData
    THEN {[stdout |-> <<v1.out>>, stderr |-> <<>>, exitCode |-> 0] :
            v1 \in Display(r.data, r.formatter)}
    ELSE {[stdout |-> <<>>, stderr |-> <<>>, exitCode |-> 0]}

(***************************************************************************)
(* The state machine.                                                      *)
(***************************************************************************)

\* Cli(ctx, cmds)
Init ==
    /\ \E app \in Apps :
        /\ Commands = app.cmds
        /\ Ctx = app.ctx
    /\ Formatter = "text"
    /\ argv = <<>>
    /\ op = "none"
    /\ data = NilData
    /\ err = Nil
    /\ invoked = <<>>
    /\ levels = <<>>
    /\ stdout = <<>>
    /\ stderr = <<>>
    /\ exitCode = 0
    /\ LibIdle

\* The caller adds a token to the command line it is about to run.
Arg(tok) ==
    /\ exitCode = 0
    /\ op = "none"
    /\ Len(argv) < MaxArgs
    /\ argv' = Append(argv, tok)
    /\ UNCHANGED <<Commands, Ctx, Formatter, op, data, err, invoked, levels,
                   stdout, stderr, exitCode>>
    /\ UNCHANGED libVars

\* The caller turns to a new command line; the outcome of the operation
\* before is no longer looked at.
NewCommandLine ==
    /\ exitCode = 0
    /\ op # "none"
    /\ argv' = <<>>
    /\ op' = "none"
    /\ data' = NilData
    /\ err' = Nil
    /\ invoked' = <<>>
    /\ levels' = <<>>
    /\ stdout' = <<>>
    /\ stderr' = <<>>
    /\ UNCHANGED <<Commands, Ctx, Formatter, exitCode>>
    /\ UNCHANGED libVars

\* The embedding application installs a Formatter between two command lines
\* (the field is exported).
SetFormatter(f) ==
    /\ exitCode = 0
    /\ op = "none"
    /\ argv = <<>>
    /\ Formatter' = f
    /\ UNCHANGED <<Commands, Ctx, argv, op, data, err, invoked, levels,
                   stdout, stderr, exitCode>>
    /\ UNCHANGED libVars

\* CliRoot.RunWithCommand(command), command being argv joined by blanks.
RunWithCommand ==
    /\ exitCode = 0
    /\ \E command \in {Join(argv, " ")} :
       \E commandArgs \in {Fields(command)} :
       \E r \in {runCommand(Commands, Commands, commandArgs, Formatter, Ctx)} :
           /\ op' = "RunWithCommand"
           /\ data' = r.data
           /\ err' = r.err
           /\ Formatter' = r.formatter
           /\ invoked' = r.invoked
           /\ levels' = r.levels
    /\ stdout' = <<>>
    /\ stderr' = <<>>
    /\ UNCHANGED <<Commands, Ctx, argv, exitCode>>
    /\ UNCHANGED libVars

\* CliRoot.Run(), os.Args[1:] being argv.
Run ==
    /\ exitCode = 0
    /\ \E r \in {runCommand(Commands, Commands, argv, Formatter, Ctx)} :
           /\ op' = "Run"
           /\ data' = r.data
           /\ err' = r.err
           /\ Formatter' = r.formatter
           /\ invoked' = r.invoked
           /\ levels' = r.levels
           /\ \E o \in RunOutput(r) :
                /\ stdout' = o.stdout
                /\ stderr' = o.stderr
                /\ exitCode' = o.exitCode
    /\ UNCHANGED <<Commands, Ctx, argv>>
    /\ UNCHANGED libVars

Next ==
    \/ \E tok \in Tokens : Arg(tok)
    \/ NewCommandLine
    \/ \E f \in {"text", "json", "custom"} : SetFormatter(f)
    \/ RunWithCommand
    \/ Run

Spec == Init /\ [][Next]_vars

\* The dispatcher as Cli built it, under calls of Run and RunWithCommand
\* alone: the embedding application installs no Formatter.
NextCalls ==
    \/ \E tok \in Tokens : Arg(tok)
    \/ NewCommandLine
    \/ RunWithCommand
    \/ Run

SpecCalls == Init /\ [][NextCalls]_vars

(***************************************************************************)
(* Vocabulary of the properties.                                           *)
(***************************************************************************)

JsonFlags == {"-json", "--json"}
HelpFlags == {"-help", "--help"}

\* An operation of the dispatcher has run and its outcome is in the state.
Called == op \in {"Run", "RunWithCommand"}

\* The nodes of the level a call of runCommand works on.
NodesAt(level) == IF level.commands = <<0>> THEN <<>> ELSE level.commands

\* The node has a child sequence, be it empty.
HasChildren(n) == Node[n].Commands # <<0>>

\* The call of runCommand at this level produces help.
HelpAsked(level) ==
    \/ level.filteredArgs = <<>>
    \/ level.filteredArgs[1] \in HelpFlags

\* The call of runCommand at this level looks for a command by name.
NameGiven(level) == ~HelpAsked(level) /\ level.filteredArgs[1] # ""

\* The first node of the level, in declaration order, that has this name;
\* 0 when the level has none.
FirstNamed(level, name) ==
    LET cs == NodesAt(level)
        at == {i \in 1..Len(cs) : Node[cs[i]].Use = name}
    IN  IF at = {} THEN 0
        ELSE cs[CHOOSE i \in at : \A j \in at : i <= j]

\* The help list of a level: one item per node, in declaration order.
HelpItems(level) ==
    [i \in 1..Len(NodesAt(level)) |->
        [Use |-> Node[NodesAt(level)[i]].Use,
         Short |-> Node[NodesAt(level)[i]].Short]]

(***************************************************************************)
(* Properties.                                                             *)
(***************************************************************************)

\* C1: when the first filtered token of a level is no help trigger and names
\* no node of that level, the call returns no Data and the error
\* "command <token> not found" naming that token, and invokes no action.
C1_CommandNotFound ==
    Called =>
        \A k \in 1..Len(levels) :
            (NameGiven(levels[k])
                /\ FirstNamed(levels[k], levels[k].filteredArgs[1]) = 0)
            => /\ data = NilData
               /\ err = "command " \o levels[k].filteredArgs[1] \o " not found"
               /\ invoked = <<>>

\* C1 happens: below the internal node "sub", after a json flag, the token x
\* names no node.
C1_Witness ==
    /\ op = "RunWithCommand"
    /\ argv = <<"--json", "sub", "x">>
    /\ Len(levels) = 2
    /\ err = "command x not found"

\* C2 as claimed: at any level, an empty filtered list or a help trigger
\* yields the list "Available commands" with one item (Use, Short) per node
\* of the level in declaration order, and no action is invoked.
C2_HelpIsAlwaysList ==
    Called =>
        \A k \in 1..Len(levels) :
            HelpAsked(levels[k])
            => /\ data = DataList("Available commands", HelpItems(levels[k]))
               /\ err = Nil
               /\ invoked = <<>>

\* C2 amended: the same, at every level that has at least one node.
C2_HelpList ==
    Called =>
        \A k \in 1..Len(levels) :
            (HelpAsked(levels[k]) /\ Len(NodesAt(levels[k])) > 0)
            => /\ data = DataList("Available commands", HelpItems(levels[k]))
               /\ err = Nil
               /\ invoked = <<>>

\* C2 happens: --help below "sub" lists the one nested command; and the
\* top level of that tree has two.
C2_Witness ==
    /\ op = "RunWithCommand"
    /\ Commands = <<1, 2>>
    /\ argv = <<"sub", "--help">>
    /\ Len(levels) = 2
    /\ data.type = "DataList"
    /\ Len(data.Items) = 1

\* C3: a json flag at any position of the argument sequence leaves the
\* dispatcher with the JSON Formatter, and no leaf action is ever handed a
\* json flag.
C3_JsonFlag ==
    Called =>
        /\ (\E i \in 1..Len(argv) : argv[i] \in JsonFlags) => Formatter = "json"
        /\ \A j \in 1..Len(invoked) :
              \A i \in 1..Len(invoked[j].args) : invoked[j].args[i] \notin JsonFlags

\* C3 happens: the flag stands between command and subcommand, the leaf runs.
C3_Witness ==
    /\ op = "Run"
    /\ argv = <<"sub", "--json", "version">>
    /\ Len(invoked) = 1
    /\ invoked[1].args = <<>>
    /\ Formatter = "json"

\* The tree is one whose "version" leaf returns the message v1.
VersionTree == Commands = <<1>> \/ Commands = <<1, 2>>

\* C4 as claimed: Run of ["version", "--json"] invokes the leaf with no
\* arguments and prints the JSON encoding of the message.
C4_JsonEncodedOutput ==
    (op = "Run" /\ argv = <<"version", "--json">> /\ VersionTree)
    => /\ invoked = <<[cmd |-> 1, args |-> <<>>, ctx |-> Ctx]>>
       /\ stdout = <<"{\"message\":\"v1\"}">>

\* C4 amended: the leaf is invoked with no arguments, the Formatter is JSON,
\* and the output is the raw text v1 (a message renders as its text under
\* every Formatter).
C4_RawTextOutput ==
    (op = "Run" /\ argv = <<"version", "--json">> /\ VersionTree)
    => /\ invoked = <<[cmd |-> 1, args |-> <<>>, ctx |-> Ctx]>>
       /\ Formatter = "json"
       /\ stdout = <<"v1">>
       /\ stderr = <<>>
       /\ exitCode = 0

C4_Witness ==
    /\ op = "Run"
    /\ argv = <<"version", "--json">>
    /\ Commands = <<1>>
    /\ data = DataMessage("v1")
    /\ stdout # <<>>

\* C5: the filtered list of every call of runCommand is its argument list
\* without the tokens equal to -json or --json, in the same order, and
\* these are the arguments the matched action receives.
C5_OnlyJsonFlagsRemoved ==
    Called =>
        \A k \in 1..Len(levels) :
            levels[k].filteredArgs =
                SelectSeq(levels[k].args, LAMBDA a : a \notin JsonFlags)

\* C6: the action of a node that has children is never invoked; when the
\* first filtered token of a level matches such a node, the next call of
\* runCommand works on its child sequence with the filtered tokens after the
\* name; and "sub version" on the tree (version, sub(version)) invokes the
\* nested leaf only.
C6_InternalNode ==
    Called =>
        /\ \A j \in 1..Len(invoked) : ~HasChildren(invoked[j].cmd)
        /\ \A k \in 1..Len(levels) :
              LET n == FirstNamed(levels[k], levels[k].filteredArgs[1])
              IN  (NameGiven(levels[k]) /\ n # 0 /\ HasChildren(n))
                  => /\ k < Len(levels)
                     /\ levels[k + 1].commands = Node[n].Commands
                     /\ levels[k + 1].args = Tail(levels[k].filteredArgs)
        /\ (Commands = <<1, 2>> /\ argv = <<"sub", "version">>)
              => /\ invoked = <<[cmd |-> 3, args |-> <<>>, ctx |-> Ctx]>>
                 /\ data = DataMessage("Sub Version: 1.0.0")
                 /\ err = Nil

C6_Witness ==
    /\ op = "RunWithCommand"
    /\ Commands = <<1, 2>>
    /\ argv = <<"sub", "version">>
    /\ Len(levels) = 2
    /\ Len(invoked) = 1

\* C7: when the first filtered token of a level matches a leaf (the first
\* node of that name in declaration order), that leaf's action is the one
\* action invoked, with the filtered tokens after the name and with the
\* Context the dispatcher was constructed with, and what it returns is what
\* the operation returns.
C7_Leaf ==
    Called =>
        /\ \E app \in Apps : app.cmds = Commands /\ app.ctx = Ctx
        /\ \A k \in 1..Len(levels) :
              LET n == FirstNamed(levels[k], levels[k].filteredArgs[1])
                  rest == Tail(levels[k].filteredArgs)
              IN  (NameGiven(levels[k]) /\ n # 0 /\ ~HasChildren(n))
                  => /\ k = Len(levels)
                     /\ invoked = <<[cmd |-> n, args |-> rest, ctx |-> Ctx]>>
                     /\ [data |-> data, err |-> err]
                            = RunAction(Node[n].Run, n, rest, Ctx)

\* C7 happens: two nodes are named "version", the first one fails.
C7_Witness ==
    /\ op = "RunWithCommand"
    /\ Commands = <<4, 1>>
    /\ argv = <<"version", "x">>
    /\ invoked = <<[cmd |-> 4, args |-> <<"x">>, ctx |-> Ctx]>>
    /\ err = "boom"

\* C8: help for a level without nodes is the message "No commands found".
C8_NoCommandsFound ==
    Called =>
        \A k \in 1..Len(levels) :
            (HelpAsked(levels[k]) /\ Len(NodesAt(levels[k])) = 0)
            => data = DataMessage("No commands found")

\* The Error envelope Run makes of the error, as the Formatter renders it.
ErrorRendering == Display(DataError(err), Formatter)

\* C9 as claimed: after Run, a success has written the rendering of the
\* envelope to stdout and the process goes on; a failure has written the
\* rendering of the Error envelope to stderr, nothing to stdout, and the
\* process has exited with status 1.
C9_RunWritesRendering ==
    op = "Run" =>
        /\ err = Nil =>
              /\ exitCode = 0
              /\ stderr = <<>>
              /\ data # NilData =>
                    \E v \in Display(data, Formatter) : stdout = <<v.out>>
        /\ err # Nil =>
              /\ exitCode = 1
              /\ stdout = <<>>
              /\ \E v \in ErrorRendering : v.err = Nil /\ stderr = <<v.out>>

\* C9 amended: the same, the failure writing to stderr and nothing to stdout
\* when the Formatter renders the Error envelope.
C9_Run ==
    op = "Run" =>
        /\ err = Nil =>
              /\ exitCode = 0
              /\ stderr = <<>>
              /\ data # NilData =>
                    \E v \in Display(data, Formatter) : stdout = <<v.out>>
        /\ err # Nil =>
              /\ exitCode = 1
              /\ (\A v \in ErrorRendering : v.err = Nil) =>
                    /\ stdout = <<>>
                    /\ \E v \in ErrorRendering : stderr = <<v.out>>

\* C9 happens: a command that is not found, under the JSON Formatter.
C9_Witness ==
    /\ op = "Run"
    /\ argv = <<"-json", "x">>
    /\ Commands = <<1>>
    /\ stderr = <<"{\"error\":\"command x not found\"}">>
    /\ exitCode = 1

\* C10: when Run fails and the Error envelope does not render, the error
\* runCommand returned is printed and the process exits with 1.
C10_OriginalErrorPrinted ==
    (op = "Run" /\ err # Nil /\ \E v \in ErrorRendering : v.err # Nil)
    => /\ stdout = <<err>> \/ stderr = <<err>>
       /\ exitCode = 1

(***************************************************************************)
(* ParseArgs (helper.go).                                                  *)
(***************************************************************************)

\* Longest argument slice handed to ParseArgs.
MaxTokens == 4

\* All sequences over S of length at most n.
SeqsUpTo(S, n) == UNION {[1..k -> S] : k \in 0..n}

\* The tokens of those slices: flags with one dash and with two, and values.
ParseTokens == {"-name", "test", "-age", "20", "-flag", "--v"}

\* strings.TrimPrefix(s, prefix)
TrimPrefix(s, prefix) ==
    IF HasPrefix(s, prefix) THEN SubSeq(s, Len(prefix) + 1, Len(s)) ELSE s

\* The value of a flag, were the next token taken whatever it starts with.
FlagValueAny(as, i) == IF i + 1 <= Len(as) THEN as[i + 1] ELSE ""

\* The value the loop of ParseArgs gives the flag at position i: the next
\* token when there is one that does not start with a dash.
FlagValue(as, i) ==
    IF i + 1 <= Len(as) /\ ~HasPrefix(as[i + 1], "-") THEN as[i + 1] ELSE ""

RECURSIVE ParseArgsFrom(_, _, _)
\* The loop of ParseArgs from position i on, m being argMap so far.
ParseArgsFrom(as, i, m) ==
    IF i > Len(as) THEN m
    ELSE IF HasPrefix(as[i], "-")
         THEN LET v == FlagValue(as, i)
                  m2 == MapSet(m, TrimPrefix(as[i], "-"), v)
              IN  IF i + 1 <= Len(as) /\ ~HasPrefix(as[i + 1], "-")
                  THEN ParseArgsFrom(as, i + 2, m2)
                  ELSE ParseArgsFrom(as, i + 1, m2)
         ELSE ParseArgsFrom(as, i + 1, m)

\* ParseArgs(args)
ParseArgs(as) == ParseArgsFrom(as, 1, EmptyMap)

\* The caller has an argument slice at hand.
InitParseArgs ==
    /\ args \in SeqsUpTo(ParseTokens, MaxTokens)
    /\ argMap = EmptyMap
    /\ parsePc = "call"
    /\ CliIdle
    /\ BindIdle
    /\ PeriodIdle
    /\ SignalIdle

\* argMap := ParseArgs(args)
CallParseArgs ==
    /\ parsePc = "call"
    /\ argMap' = ParseArgs(args)
    /\ parsePc' = "done"
    /\ UNCHANGED <<args, cliVars, bindVars, periodVars, signalVars>>

NextParseArgs == CallParseArgs

SpecParseArgs == InitParseArgs /\ [][NextParseArgs]_vars

\* The positions of args that hold a token starting with a dash.
DashPositions == {i \in 1..Len(args) : SubSeq(args[i], 1, 1) = "-"}

\* The token at position i without its first character.
Undashed(i) == SubSeq(args[i], 2, Len(args[i]))

\* The token after position i when it is there and is not a flag, else "".
Following(i) ==
    IF i < Len(args) /\ (i + 1) \notin DashPositions THEN args[i + 1] ELSE ""

\* C11: ParseArgs returns the map of a left-to-right scan: every token that
\* starts with a dash is a flag whose key is the token without that dash;
\* its value is the next token when that one does not start with a dash
\* and "" otherwise (the last flag of a key wins); the other tokens add
\* nothing.  ["-name","test","-age","20"] gives {name: test, age: 20} and
\* ["-flag"] gives {flag: ""}.
C11_ParseArgs ==
    parsePc = "done" =>
        /\ DOMAIN argMap = {Undashed(i) : i \in DashPositions}
        /\ \A i \in DashPositions :
              (\A j \in DashPositions : j > i => Undashed(j) # Undashed(i))
                  => argMap[Undashed(i)] = Following(i)
        /\ args = <<"-name", "test", "-age", "20">>
              => argMap = ("name" :> "test") @@ ("age" :> "20")
        /\ args = <<"-flag">> => argMap = ("flag" :> "")

\* A slice with a flag that takes a value, a flag followed by a flag, and a
\* token the scan passes over has been parsed.
C11_Witness ==
    /\ parsePc = "done"
    /\ args = <<"test", "-name", "20", "-flag">>
    /\ argMap = ("name" :> "20") @@ ("flag" :> "")

(***************************************************************************)
(* InputFromModel (helper.go).                                             *)
(***************************************************************************)

\* Most lines waiting on os.Stdin.
MaxStdin == 2

Char(s, i) == SubSeq(s, i, i)

Upper == "ABCDEFGHIJKLMNOPQRSTUVWXYZ"
Lower == "abcdefghijklmnopqrstuvwxyz"

ToLowerChar(c) ==
    IF \E i \in 1..Len(Upper) : Char(Upper, i) = c
    THEN Char(Lower, CHOOSE i \in 1..Len(Upper) : Char(Upper, i) = c)
    ELSE c

\* The key of a field, were its name looked up as it is declared.
ToLowerNot(s) == s

RECURSIVE ToLower(_)
\* strings.ToLower(s)
ToLower(s) ==
    IF s = "" THEN ""
    ELSE ToLowerChar(Char(s, 1)) \o ToLower(SubSeq(s, 2, Len(s)))

\* strings.Contains(s, substr)
Contains(s, substr) ==
    \E i \in 1..(Len(s) - Len(substr) + 1) :
        SubSeq(s, i, i + Len(substr) - 1) = substr

RECURSIVE TrimLeft(_)
TrimLeft(s) ==
    IF s # "" /\ Char(s, 1) \in Whitespace
    THEN TrimLeft(SubSeq(s, 2, Len(s)))
    ELSE s

RECURSIVE TrimRight(_)
TrimRight(s) ==
    IF s # "" /\ Char(s, Len(s)) \in Whitespace
    THEN TrimRight(SubSeq(s, 1, Len(s) - 1))
    ELSE s

\* strings.TrimSpace(s)
TrimSpace(s) == TrimRight(TrimLeft(s))

Digits == "0123456789"
IsDigit(c) == \E d \in 1..Len(Digits) : Char(Digits, d) = c
DigitValue(c) == (CHOOSE d \in 1..Len(Digits) : Char(Digits, d) = c) - 1

RECURSIVE Decimal(_, _)
\* The number the digits of s continue acc to.
Decimal(s, acc) ==
    IF s = "" THEN acc
    ELSE Decimal(SubSeq(s, 2, Len(s)), acc * 10 + DigitValue(Char(s, 1)))

\* The error of strconv.Atoi for a text that is no number: its Error().
NumError(s) == "strconv.Atoi: parsing \"" \o s \o "\": invalid syntax"

\* strconv.Atoi(s): (i, err), for texts of a few digits.
Atoi(s) ==
    LET signed == s # "" /\ Char(s, 1) \in {"+", "-"}
        body == IF signed THEN SubSeq(s, 2, Len(s)) ELSE s
    IN  IF body # "" /\ \A i \in 1..Len(body) : IsDigit(Char(body, i))
        THEN [i |-> IF signed /\ Char(s, 1) = "-"
                    THEN 0 - Decimal(body, 0) ELSE Decimal(body, 0),
              err |-> Nil]
        ELSE [i |-> 0, err |-> NumError(s)]

\* fmt.Errorf("error parsing int: %w", err)
ParseIntError(e) == "error parsing int: " \o e

\* field.Kind().String(): every pointer is a "ptr".
KindName(kind) == IF HasPrefix(kind, "*") THEN "ptr" ELSE kind

\* The nil pointer and the pointer to v.
NilPtr == <<>>
PtrTo(v) == <<v>>

\* A field of a struct: name, type, validate tag and the value it holds.
Field(name, kind, tag, value) ==
    [Kind |-> kind, Name |-> name, Tag |-> tag, Value |-> value]

\* The structs InputFromModel is handed, with the values they hold before.
Models ==
    [n \in 1..6 |->
        CASE n = 1 -> <<Field("Name", "string", "required", ""),
                        Field("Age", "int", "required", 0),
                        Field("Other", "string", "", "")>>
          [] n = 2 -> <<Field("A", "int", "required", 1),
                        Field("B", "*int", "required", NilPtr)>>
          [] n = 3 -> <<Field("A", "string", "required,min=1", "old"),
                        Field("B", "*string", "required", NilPtr)>>
          [] n = 4 -> <<Field("Name", "string", "required", "old"),
                        Field("Flag", "bool", "required", FALSE),
                        Field("Age", "int", "required", 7)>>
          [] n = 5 -> <<Field("Other", "string", "omitempty", "old"),
                        Field("P", "*bool", "required", NilPtr),
                        Field("Name", "string", "required", "")>>
          [] n = 6 -> <<Field("Age", "int", "", 5),
                        Field("B", "*int", "required", PtrTo(9)),
                        Field("Name", "string", "required", "old")>>]

\* The values of the map handed to InputFromModel, the keys of the map
\* handed along with struct n (capitalised keys among them) and the lines
\* typed on os.Stdin.
BindValues == {"test", "20", "twenty", "-5"}
BindKeys ==
    [n \in 1..6 |->
        CASE n = 1 -> {"name", "age", "other", "Name"}
          [] n = 2 -> {"a", "b", "A"}
          [] n = 3 -> {"a", "b"}
          [] n = 4 -> {"name", "flag", "age"}
          [] n = 5 -> {"other", "p", "name"}
          [] n = 6 -> {"age", "b", "name"}]
StdinLines == {" 42 ", "test", ""}

\* All maps from some keys of K to values of V.
MapsOver(K, V) == UNION {[S -> V] : S \in SUBSET K}

\* strings.Contains(tag, "required")
Required(f) == Contains(f.Tag, "required")

\* A return statement with the error e at field i.
Return(st, i, e) == [st EXCEPT !.err = e, !.failed = i]

\* fmt.Printf(text)
Printf(st, text) == [st EXCEPT !.printed = Append(@, text)]

\* field.Set...(v) on field i
SetField(st, i, v) == [st EXCEPT !.model[i].Value = v]

\* The switch over field.Kind() for field i and the text input.
Assign(st, i, input) ==
    LET kind == st.model[i].Kind
        r == Atoi(input)
        unsupported ==
            Return(Printf(st, "Unsupported type: " \o KindName(kind) \o "\n"),
                   i, "unsupported type: " \o KindName(kind))
    IN  CASE kind = "string" -> SetField(st, i, input)
          [] kind = "int" ->
                IF r.err # Nil THEN Return(st, i, ParseIntError(r.err))
                ELSE SetField(st, i, r.i)
          [] kind = "*string" -> SetField(st, i, PtrTo(input))
          [] kind = "*int" ->
                IF r.err # Nil THEN Return(st, i, ParseIntError(r.err))
                ELSE SetField(st, i, PtrTo(r.i))
          [] OTHER -> unsupported

\* One turn of the loop of InputFromModel, for field i and the map m.
BindField(st, i, m) ==
    LET f == st.model[i]
        key == ToLower(f.Name)
        looked == [st EXCEPT !.lookups = Append(@, key)]
        asked == Printf(looked, "Enter " \o f.Name \o ": ")
    IN  IF ~Required(f) THEN st
        ELSE IF key \in DOMAIN m THEN Assign(looked, i, m[key])
        ELSE IF st.stdin = <<>>
             THEN Return(asked, i, "error reading input: EOF")
             ELSE Assign([asked EXCEPT !.stdin = Tail(@)], i,
                         TrimSpace(Head(st.stdin) \o "\n"))

\* The loop, were it to go on to the next field after an error.
GoesOnAlways(st) == TRUE

\* The loop goes on to the next field: no return statement has run.
GoesOn(st) == st.err = Nil

RECURSIVE BindFrom(_, _, _)
\* The loop of InputFromModel from field i on.
BindFrom(st, i, m) ==
    IF i > Len(st.model) \/ ~GoesOn(st) THEN st
    ELSE BindFrom(BindField(st, i, m), i + 1, m)

\* InputFromModel(&mdl, m) with the lines in waiting on os.Stdin.
InputFromModel(mdl, m, in) == BindFrom(Entered(mdl, in), 1, m)

\* The caller has a struct, a map of supplied values and a terminal.
InitInputFromModel ==
    /\ \E n \in DOMAIN Models :
        /\ model = Models[n]
        /\ argMap \in MapsOver(BindKeys[n], BindValues)
    /\ stdin \in SeqsUpTo(StdinLines, MaxStdin)
    /\ bind = Entered(model, stdin)
    /\ bindPc = "call"
    /\ args = <<>>
    /\ parsePc = "idle"
    /\ CliIdle
    /\ PeriodIdle
    /\ SignalIdle

\* err := InputFromModel(&model, argMap)
CallInputFromModel ==
    /\ bindPc = "call"
    /\ bind' = InputFromModel(model, argMap, stdin)
    /\ bindPc' = "done"
    /\ UNCHANGED <<model, stdin, parseVars, cliVars, periodVars, signalVars>>

NextInputFromModel == CallInputFromModel

SpecInputFromModel == InitInputFromModel /\ [][NextInputFromModel]_vars

\* Vocabulary of the properties of InputFromModel.

\* The fields of the struct, by position.
FieldIds == 1..Len(model)

\* Field i carries the required annotation.
Annotated(i) == model[i].Tag \in {"required", "required,min=1"}

\* The lower-cased name of field i, spelled out.
LowerName(i) ==
    CASE model[i].Name = "Name" -> "name"
      [] model[i].Name = "Age" -> "age"
      [] model[i].Name = "Other" -> "other"
      [] model[i].Name = "Flag" -> "flag"
      [] model[i].Name = "A" -> "a"
      [] model[i].Name = "B" -> "b"
      [] model[i].Name = "P" -> "p"

\* The supplied values hold a value for field i.
Supplied(i) == LowerName(i) \in DOMAIN argMap

\* The call prompted for field i.
Prompted(i) ==
    \E k \in 1..Len(bind.printed) :
        bind.printed[k] = "Enter " \o model[i].Name \o ": "

\* The call looked field i up in the supplied values.
LookedUp(i) == \E k \in 1..Len(bind.lookups) : bind.lookups[k] = LowerName(i)

\* Field i holds what it held before the call.
Kept(i) == bind.model[i] = model[i]

\* Field i holds the text t: as it is for a string, as the number it
\* writes for an int, behind a pointer for the pointer types.
Holds(i, t) ==
    LET v == bind.model[i].Value
    IN  CASE model[i].Kind = "string" -> v = t
          [] model[i].Kind = "int" -> ToString(v) = t
          [] model[i].Kind = "*string" -> v = <<t>>
          [] model[i].Kind = "*int" -> Len(v) = 1 /\ ToString(v[1]) = t
          [] OTHER -> FALSE

\* The lines the call read from os.Stdin.
LinesRead == Len(stdin) - Len(bind.stdin)

\* C12: a required field whose lower-cased name is a key of the supplied
\* values is assigned from that value (once the call has returned without
\* an error) and is never prompted for, and no line is read from stdin
\* but for required fields that are not supplied; a field without the
\* required annotation keeps its value, is never prompted for and is never
\* looked up, even when the supplied values hold its name.
C12_SuppliedAndOptional ==
    bindPc = "done" =>
        /\ \A i \in FieldIds :
              Annotated(i) /\ Supplied(i) =>
                  /\ ~Prompted(i)
                  /\ bind.err = Nil => Holds(i, argMap[LowerName(i)])
        /\ LinesRead <= Cardinality({i \in FieldIds :
                                        Annotated(i) /\ ~Supplied(i)})
        /\ \A i \in FieldIds :
              ~Annotated(i) => Kept(i) /\ ~Prompted(i) /\ ~LookedUp(i)

\* The struct of the test has been bound from name and age, a value for
\* the field Other being supplied too: nothing was asked, Other is as it was.
C12_Witness ==
    /\ bindPc = "done"
    /\ model = Models[1]
    /\ argMap = [k \in {"name", "age", "other"} |->
                    CASE k = "name" -> "test" [] k = "age" -> "20"
                      [] k = "other" -> "twenty"]
    /\ stdin = <<"test">>
    /\ bind.err = Nil
    /\ bind.model[1].Value = "test"
    /\ bind.model[2].Value = 20
    /\ bind.model[3].Value = ""
    /\ bind.printed = <<>>
    /\ bind.stdin = stdin

\* The call returned a coercion error: a text that is no integer for an
\* int or *int field, or a field of a type it does not support.
CoercionError ==
    /\ bindPc = "done"
    /\ \/ HasPrefix(bind.err, "error parsing int")
       \/ HasPrefix(bind.err, "unsupported type")

\* The required fields among the first n, in declaration order.
AnnotatedUpTo(n) == SelectSeq([i \in 1..n |-> i], Annotated)

\* What is left of a typed line once the blanks around it are gone.
Typed(line) ==
    CASE line = " 42 " -> "42"
      [] line = "test" -> "test"
      [] line = "" -> ""

\* The text field i is bound from: the supplied value, or else the line
\* typed at its prompt (one line for each required field not supplied;
\* "<no line>" when os.Stdin has no such line).
TextFor(i) ==
    LET k == Cardinality({j \in 1..i : Annotated(j) /\ ~Supplied(j)})
    IN  IF Supplied(i) THEN argMap[LowerName(i)]
        ELSE IF k \in 1..Len(stdin) THEN Typed(stdin[k])
        ELSE "<no line>"

\* C13 as stated: at a coercion error the failing field and every field
\* after it keep their values and are neither looked up in the supplied
\* values nor prompted for; the required fields before it are assigned.
C13_FailingFieldNotRead ==
    CoercionError =>
        /\ \A i \in FieldIds :
              i >= bind.failed => Kept(i) /\ ~LookedUp(i) /\ ~Prompted(i)
        /\ \A i \in FieldIds :
              i < bind.failed /\ Annotated(i) => Holds(i, TextFor(i))

\* C13 amended: the required fields are taken in declaration order and the
\* call returns at the first coercion error.  The text of the failing field
\* has been taken by then, from the supplied values or else at a prompt,
\* and the field keeps its value; every field after it keeps its value and
\* is neither looked up nor prompted for; the required fields before it
\* hold what they were assigned.
C13_StopsAtFirstError ==
    CoercionError =>
        /\ bind.failed \in FieldIds
        /\ Annotated(bind.failed)
        /\ LET done == AnnotatedUpTo(bind.failed)
           IN  bind.lookups = [k \in 1..Len(done) |-> LowerName(done[k])]
        /\ Kept(bind.failed)
        /\ Prompted(bind.failed) <=> ~Supplied(bind.failed)
        /\ \A i \in FieldIds :
              i > bind.failed => Kept(i) /\ ~LookedUp(i) /\ ~Prompted(i)
        /\ \A i \in FieldIds :
              i < bind.failed /\ Annotated(i) => Holds(i, TextFor(i))

\* Name was bound from the supplied values, the bool field Flag was
\* prompted for and then refused, and Age, supplied too, is as it was.
C13_Witness ==
    /\ CoercionError
    /\ model = Models[4]
    /\ argMap = [k \in {"name", "age"} |->
                    IF k = "name" THEN "test" ELSE "20"]
    /\ stdin = <<"test">>
    /\ bind.err = "unsupported type: bool"
    /\ bind.failed = 2
    /\ bind.model[1].Value = "test"
    /\ bind.model[3].Value = 7
    /\ bind.printed = <<"Enter Flag: ", "Unsupported type: bool\n">>
    /\ bind.stdin = <<>>

\* The texts that are base-10 integers, among those in play.
IntegerTexts == {ToString(n) : n \in -99..99}

\* Field i is an integer field (int or *int).
IntegerField(i) == model[i].Kind \in {"int", "*int"}

\* The call got as far as coercing a text for the required field i.
Coerced(i) ==
    /\ bindPc = "done"
    /\ Annotated(i)
    /\ bind.failed = 0 \/ i <= bind.failed
    /\ TextFor(i) # "<no line>"

\* C14: when a required integer field (int or *int) receives a text that is
\* no base-10 integer the call fails at that field with a parse error whose
\* message names the field.
C14_ErrorNamesField ==
    \A i \in FieldIds :
        Coerced(i) /\ IntegerField(i) /\ TextFor(i) \notin IntegerTexts =>
            /\ bind.failed = i
            /\ HasPrefix(bind.err, "error parsing int")
            /\ \/ Contains(bind.err, model[i].Name)
               \/ Contains(bind.err, LowerName(i))

(***************************************************************************)
(* TimePeriodHumanReadable (formatter.go).                                 *)
(***************************************************************************)

\* The periods from -61 seconds up to this many are all tried, beside a few
\* far ones.
MaxSeconds == 90000

\* The int32 values, and those handed to TimePeriodHumanReadable.
Int32 == (-2147483647 - 1)..2147483647
PeriodInputs ==
    (-61..MaxSeconds)
        \cup {-86400, -2147483647, -2147483647 - 1,
              172799, 172800, 8640000, 2147483647}

\* a / b and a % b of Go for b > 0: the quotient is truncated toward zero.
Quo(a, b) == IF a >= 0 \/ a % b = 0 THEN a \div b ELSE (a \div b) + 1
Rem(a, b) == a - b * Quo(a, b)

RECURSIVE Itoa(_)
\* The verb %d of fmt.Sprintf: the decimal digits of n, after a minus sign
\* when n is negative.
Itoa(n) ==
    IF n < 0
    THEN IF n > -10 THEN "-" \o Char(Digits, 1 - n)
         ELSE Itoa(Quo(n, 10)) \o Char(Digits, 1 - Rem(n, 10))
    ELSE IF n < 10 THEN Char(Digits, n + 1)
         ELSE Itoa(n \div 10) \o Char(Digits, (n % 10) + 1)

\* The third branch: fmt.Sprintf("%dm %ds", minutes, remainingSeconds)
MinutesText(s) == Itoa(Quo(s, 60)) \o "m " \o Itoa(Rem(s, 60)) \o "s"

\* The fourth branch, were it to leave out the parts after a whole hour.
HoursTextShort(s) ==
    IF Rem(s, 3600) = 0 THEN Itoa(Quo(s, 3600)) \o "h"
    ELSE Itoa(Quo(s, 3600)) \o "h " \o Itoa(Quo(Rem(s, 3600), 60)) \o "m "
            \o Itoa(Rem(Rem(s, 3600), 60)) \o "s"

\* The fourth branch:
\* fmt.Sprintf("%dh %dm %ds", hours, remainingMinutes, remainingSeconds)
HoursText(s) ==
    Itoa(Quo(s, 3600)) \o "h " \o Itoa(Quo(Rem(s, 3600), 60)) \o "m "
        \o Itoa(Rem(Rem(s, 3600), 60)) \o "s"

\* TimePeriodHumanReadable(seconds)
TimePeriodHumanReadable(s) ==
    IF s = 0 THEN "0s"
    ELSE IF s < 60 THEN Itoa(s) \o "s"
    ELSE IF s < 3600 THEN MinutesText(s)
    ELSE IF s < 86400 THEN HoursText(s)
    ELSE Itoa(Quo(s, 86400)) \o "d"

\* The caller has a number of seconds.
InitPeriod ==
    /\ seconds \in PeriodInputs \cap Int32
    /\ period = ""
    /\ periodPc = "call"
    /\ CliIdle
    /\ ParseIdle
    /\ BindIdle
    /\ SignalIdle

\* period := TimePeriodHumanReadable(seconds)
CallPeriod ==
    /\ periodPc = "call"
    /\ period' = TimePeriodHumanReadable(seconds)
    /\ periodPc' = "done"
    /\ UNCHANGED <<seconds, cliVars, parseVars, bindVars, signalVars>>

NextPeriod == CallPeriod

SpecPeriod == InitPeriod /\ [][NextPeriod]_vars

JsonAsked(line) == \E i \in 1..Len(line) : line[i] \in JsonFlags

\* C18: over any sequence of calls of RunWithCommand and Run on one
\* dispatcher the Formatter starts as the plain-text one and changes only
\* from plain-text to JSON: once JSON it stays JSON for every later call,
\* and a call whose command line holds -json or --json leaves it JSON
\* whatever the call returns (help and 'command not found' included).
C18_TextToJsonOnly ==
    /\ Formatter = "text"
    /\ [][/\ Formatter' # Formatter =>
                Formatter = "text" /\ Formatter' = "json"
          /\ (op = "none" /\ Called' /\ JsonAsked(argv')) =>
                Formatter' = "json"]_vars

\* A later call without the flag, that fails with 'command not found',
\* runs under the JSON Formatter an earlier call switched to.
C18_Witness ==
    /\ op = "RunWithCommand"
    /\ argv = <<"x">>
    /\ err = "command x not found"
    /\ Formatter = "json"

\* The outcome of an operation is that of a help request at the last level
\* runCommand reached.
EndsInHelp ==
    /\ HelpAsked(levels[Len(levels)])
    /\ data.type \in {"DataList", "DataMessage"}
    /\ err = Nil
    /\ invoked = <<>>

\* The outcome is the error 'command ... not found' for the first token of
\* the last level.
EndsInNotFound ==
    /\ NameGiven(levels[Len(levels)])
    /\ data = NilData
    /\ err = "command " \o levels[Len(levels)].filteredArgs[1] \o " not found"
    /\ invoked = <<>>

\* The outcome is that of the one action that was invoked.
EndsInAction ==
    /\ Len(invoked) = 1
    /\ NameGiven(levels[Len(levels)])
    /\ Node[invoked[1].cmd].Commands = <<0>>

\* C19: runCommand returns for every argument sequence and every command
\* tree, a tree whose child sequences refer back to an ancestor included:
\* each recursive call has strictly fewer tokens than the call before it,
\* the number of recursive calls is at most the number of filtered tokens
\* of the first call, and the call ends in help, in 'command not found' or
\* in exactly one action invocation.
C19_Terminates ==
    Called =>
        /\ Len(levels) >= 1
        /\ \A k \in 1..(Len(levels) - 1) :
              /\ Len(levels[k + 1].args) < Len(levels[k].args)
              /\ Len(levels[k + 1].filteredArgs) < Len(levels[k].filteredArgs)
        /\ Len(levels) - 1 <= Len(levels[1].filteredArgs)
        /\ Len(levels[1].filteredArgs)
              <= Cardinality({i \in 1..Len(levels[1].args) :
                                 levels[1].args[i] \notin JsonFlags})
        /\ \/ EndsInHelp /\ ~EndsInNotFound /\ ~EndsInAction
           \/ ~EndsInHelp /\ EndsInNotFound /\ ~EndsInAction
           \/ ~EndsInHelp /\ ~EndsInNotFound /\ EndsInAction

\* On the tree whose node sub holds itself among its children, three times
\* sub descends three times through the same node and ends in its help.
C19_Witness ==
    /\ op = "Run"
    /\ Commands = <<7>>
    /\ argv = <<"sub", "sub", "sub">>
    /\ Len(levels) = 4
    /\ levels[4].commands = <<7, 1>>
    /\ levels[4].args = <<>>
    /\ data.type = "DataList"
    /\ invoked = <<>>

(***************************************************************************)
(* The SignalDispatcher (package signal).                                  *)
(*                                                                         *)
(* A goroutine is named by a sequence of numbers: <<g>> for the caller g,  *)
(* and the name of the goroutine that called Emit followed by p for the    *)
(* goroutine that Emit started for the callback at position p.  A call of  *)
(* Emit goes by the name of the goroutine that made it.                    *)
(***************************************************************************)

\* Most calls of Connect and Emit the callers make, all in all.
MaxCalls == 3

\* The goroutines of the application that call the dispatcher.
Callers == {<<1>>, <<2>>}

\* The callbacks the application registers: "log" only returns, "join"
\* connects the callback "log" to the signal it is called with, "relay"
\* emits the signal "b" with its data (unless "b" is what it is called with).
CallbackNames == {"log", "join", "relay"}

\* The data a caller emits.
Payload(g) == IF g = <<1>> THEN "p1" ELSE "p2"

\* No call of the dispatcher is under way in a goroutine.
NoCall == [fn |-> "none", pc |-> "", signal |-> "", callback |-> ""]

\* A call of Connect or Emit at its first statement.
ConnectCall(s, cb) ==
    [fn |-> "Connect", pc |-> "lock", signal |-> s, callback |-> cb]
EmitCall(s) ==
    [fn |-> "Emit", pc |-> "lock", signal |-> s, callback |-> ""]

\* A goroutine of a caller, and the goroutine Emit starts for the callback
\* cb of its snapshot: go func(cb Callback) {...}(callback)
CallerGoroutine ==
    [kind |-> "caller", cb |-> "", signal |-> "", data |-> "",
     status |-> "idle", call |-> NoCall]
CallbackGoroutine(cb, s, d) ==
    [kind |-> "callback", cb |-> cb, signal |-> s, data |-> d,
     status |-> "ready", call |-> NoCall]

\* The call Emit(s, d) at its first statement.
Emission(s, d) ==
    [signal |-> s, data |-> d, snapshot |-> <<>>, exists |-> FALSE,
     read |-> FALSE, wg |-> 0, spawned |-> 0, returned |-> FALSE]

\* Goroutine id was started, directly or not, by a call of goroutine g.
StartedBy(g, id) == Len(id) > Len(g) /\ SubSeq(id, 1, Len(g)) = g

\* The function m on the keys of S only.
Restrict(m, S) == [k \in S |-> m[k]]

\* What is left when goroutine g calls again: the goroutines its call
\* before had started are gone, and so are that call and theirs.
GoroutinesLeft(g) == {id \in DOMAIN gor : ~StartedBy(g, id)}
EmissionsLeft(g) == {id \in DOMAIN ems : id # g /\ ~StartedBy(g, id)}

\* d.lock.Lock(), were it to go through while the lock is held.
CanLockAlways(g) == TRUE

\* d.lock.Lock() goes through for goroutine g.
CanLock(g) == lock = <<>>

\* The lock after the Unlock of Emit, were Emit to keep it.
ReleasedNot(g) == g

\* The lock after d.lock.Unlock() by goroutine g.
Released(g) == <<>>

\* wg.Wait(), were it to return at once.
WaitDoneAlways(e) == TRUE

\* wg.Wait() of the call of Emit by goroutine e returns.
WaitDone(e) == ems[e].wg = 0

\* The variables beside those of the SignalDispatcher.
otherVars == <<cliVars, parseVars, bindVars, periodVars>>

\* The application has a dispatcher and its callers.
InitSignal ==
    /\ NewSignalDispatcher
    /\ gor = [g \in Callers |-> CallerGoroutine]
    /\ CliIdle
    /\ ParseIdle
    /\ BindIdle
    /\ PeriodIdle

\* A caller calls d.Connect(s, cb).
CallConnect(g, s, cb) ==
    /\ g \in Callers
    /\ gor[g].call = NoCall
    /\ calls < MaxCalls
    /\ gor' = [Restrict(gor, GoroutinesLeft(g)) EXCEPT
                  ![g].call = ConnectCall(s, cb)]
    /\ ems' = Restrict(ems, EmissionsLeft(g))
    /\ calls' = calls + 1
    /\ UNCHANGED <<listeners, lock, regs, otherVars>>

\* A caller calls d.Emit(s, Payload(g)).
CallEmit(g, s) ==
    /\ g \in Callers
    /\ gor[g].call = NoCall
    /\ calls < MaxCalls
    /\ gor' = [Restrict(gor, GoroutinesLeft(g)) EXCEPT
                  ![g].call = EmitCall(s)]
    /\ ems' = MapSet(Restrict(ems, EmissionsLeft(g)), g,
                     Emission(s, Payload(g)))
    /\ calls' = calls + 1
    /\ UNCHANGED <<listeners, lock, regs, otherVars>>

\* Connect: d.lock.Lock()
ConnectLock(g) ==
    /\ gor[g].call.fn = "Connect"
    /\ gor[g].call.pc = "lock"
    /\ CanLock(g)
    /\ lock' = g
    /\ gor' = [gor EXCEPT ![g].call.pc = "append"]
    /\ UNCHANGED <<listeners, ems, regs, calls, otherVars>>

\* append(d.listeners[signal], callback)
Appended(list, cb) == Append(list, cb)

\* Connect: the entry of the signal is made when it is not there, and the
\* callback appended to it.
ConnectAppend(g) ==
    /\ gor[g].call.fn = "Connect"
    /\ gor[g].call.pc = "append"
    /\ LET s == gor[g].call.signal
           list == IF s \in DOMAIN listeners THEN listeners[s] ELSE <<>>
       IN  listeners' =
              MapSet(listeners, s, Appended(list, gor[g].call.callback))
    /\ gor' = [gor EXCEPT ![g].call.pc = "return"]
    /\ UNCHANGED <<lock, ems, regs, calls, otherVars>>

\* Connect returns: the deferred d.lock.Unlock() runs.
ConnectReturn(g) ==
    /\ gor[g].call.fn = "Connect"
    /\ gor[g].call.pc = "return"
    /\ lock' = <<>>
    /\ regs' = [regs EXCEPT ![gor[g].call.signal] =
                  Append(@, gor[g].call.callback)]
    /\ gor' = [gor EXCEPT ![g].call = NoCall]
    /\ UNCHANGED <<listeners, ems, calls, otherVars>>

\* Emit: d.lock.Lock()
EmitLock(g) ==
    /\ gor[g].call.fn = "Emit"
    /\ gor[g].call.pc = "lock"
    /\ CanLock(g)
    /\ lock' = g
    /\ gor' = [gor EXCEPT ![g].call.pc = "read"]
    /\ UNCHANGED <<listeners, ems, regs, calls, otherVars>>

\* Emit: callbacks, exists := d.listeners[signal]
EmitRead(g) ==
    /\ gor[g].call.fn = "Emit"
    /\ gor[g].call.pc = "read"
    /\ LET s == gor[g].call.signal
           exists == s \in DOMAIN listeners
       IN  ems' = [ems EXCEPT ![g] =
                      [@ EXCEPT !.snapshot = IF exists THEN listeners[s]
                                             ELSE <<>>,
                                !.exists = exists,
                                !.read = TRUE]]
    /\ gor' = [gor EXCEPT ![g].call.pc = "unlock"]
    /\ UNCHANGED <<listeners, lock, regs, calls, otherVars>>

\* Emit: d.lock.Unlock(), before any callback is started.
EmitUnlock(g) ==
    /\ gor[g].call.fn = "Emit"
    /\ gor[g].call.pc = "unlock"
    /\ lock' = Released(g)
    /\ gor' = [gor EXCEPT ![g].call.pc = "range"]
    /\ UNCHANGED <<listeners, ems, regs, calls, otherVars>>

\* Emit: one turn of the loop over callbacks: wg.Add(1) and go func(cb).
EmitGo(g) ==
    /\ gor[g].call.fn = "Emit"
    /\ gor[g].call.pc = "range"
    /\ ems[g].exists
    /\ ems[g].spawned < Len(ems[g].snapshot)
    /\ ems' = [ems EXCEPT ![g].wg = @ + 1, ![g].spawned = @ + 1]
    /\ gor' = MapSet(gor, Append(g, ems[g].spawned + 1),
                     CallbackGoroutine(ems[g].snapshot[ems[g].spawned + 1],
                                       ems[g].signal, ems[g].data))
    /\ UNCHANGED <<listeners, lock, regs, calls, otherVars>>

\* Emit returns: the signal had no entry, or the loop is over and
\* wg.Wait() has returned.
EmitReturn(g) ==
    /\ gor[g].call.fn = "Emit"
    /\ gor[g].call.pc = "range"
    /\ ems[g].exists => ems[g].spawned = Len(ems[g].snapshot) /\ WaitDone(g)
    /\ ems' = [ems EXCEPT ![g].returned = TRUE]
    /\ gor' = [gor EXCEPT ![g].call = NoCall]
    /\ UNCHANGED <<listeners, lock, regs, calls, otherVars>>

\* The goroutine of a callback runs cb(signal, data): the callback returns
\* at once, or calls Connect or Emit on the dispatcher.
CallbackRun(g) ==
    /\ gor[g].kind = "callback"
    /\ gor[g].status = "ready"
    /\ CASE gor[g].cb = "join" ->
              /\ gor' = [gor EXCEPT
                            ![g].status = "running",
                            ![g].call = ConnectCall(gor[g].signal, "log")]
              /\ ems' = ems
         [] gor[g].cb = "relay" /\ gor[g].signal # "b" ->
              /\ gor' = [gor EXCEPT ![g].status = "running",
                                    ![g].call = EmitCall("b")]
              /\ ems' = MapSet(ems, g, Emission("b", gor[g].data))
         [] OTHER ->
              /\ gor' = [gor EXCEPT ![g].status = "running"]
              /\ ems' = ems
    /\ UNCHANGED <<listeners, lock, regs, calls, otherVars>>

\* The callback has returned: the deferred wg.Done() runs on the WaitGroup
\* of the call of Emit that started the goroutine.
CallbackDone(g) ==
    /\ gor[g].kind = "callback"
    /\ gor[g].status = "running"
    /\ gor[g].call = NoCall
    /\ gor' = [gor EXCEPT ![g].status = "done"]
    /\ ems' = [ems EXCEPT ![SubSeq(g, 1, Len(g) - 1)].wg = @ - 1]
    /\ UNCHANGED <<listeners, lock, regs, calls, otherVars>>

\* A step of goroutine g inside the dispatcher or a callback.
Step(g) ==
    \/ ConnectLock(g)
    \/ ConnectAppend(g)
    \/ ConnectReturn(g)
    \/ EmitLock(g)
    \/ EmitRead(g)
    \/ EmitUnlock(g)
    \/ EmitGo(g)
    \/ EmitReturn(g)
    \/ CallbackRun(g)
    \/ CallbackDone(g)

NextSignal ==
    \E g \in DOMAIN gor :
        \/ \E s \in Signals, cb \in CallbackNames : CallConnect(g, s, cb)
        \/ \E s \in Signals : CallEmit(g, s)
        \/ Step(g)

SpecSignal == InitSignal /\ [][NextSignal]_vars

\* Vocabulary of the properties of the SignalDispatcher.

\* The callbacks registered for signal s, in the order of registration.
Registered(s) == IF s \in DOMAIN listeners THEN listeners[s] ELSE <<>>

\* The sequence p is a prefix of the sequence q.
IsPrefixOf(p, q) == Len(p) <= Len(q) /\ \A i \in 1..Len(p) : p[i] = q[i]

\* The goroutines the call of Emit by goroutine e has started.
Started(e) ==
    {id \in DOMAIN gor : Len(id) = Len(e) + 1 /\ SubSeq(id, 1, Len(e)) = e}

\* The call of Emit by goroutine e takes its snapshot in this step.
TakesSnapshot(e) ==
    /\ e \in DOMAIN ems /\ ~ems[e].read
    /\ e \in DOMAIN ems' /\ ems'[e].read

\* C15: Emit(signal, data) does not return before every callback that was
\* registered for the signal when the emission took its snapshot (those
\* whose Connect had returned) has been invoked exactly once, with that
\* signal and that data, and has returned; it invokes nothing else, so no
\* callback of another signal; the callbacks of one emission are started
\* one after the other and run in any order, side by side.
C15_EmitJoins ==
    /\ [](\A e \in DOMAIN ems :
            ems[e].returned =>
                /\ \A p \in 1..Len(ems[e].snapshot) :
                      /\ Append(e, p) \in DOMAIN gor
                      /\ gor[Append(e, p)].status = "done"
                      /\ gor[Append(e, p)].cb = ems[e].snapshot[p]
                      /\ gor[Append(e, p)].signal = ems[e].signal
                      /\ gor[Append(e, p)].data = ems[e].data
                /\ Started(e) =
                      {Append(e, p) : p \in 1..Len(ems[e].snapshot)})
    /\ [][\A e \in DOMAIN ems :
            TakesSnapshot(e) => ems'[e].snapshot = regs[ems[e].signal]]_vars

\* An emission of "a" has returned after its one callback ran with its
\* data, while "b" has a callback of its own that was not started.
C15_Witness ==
    /\ <<1>> \in DOMAIN ems
    /\ ems[<<1>>].returned
    /\ ems[<<1>>].signal = "a"
    /\ ems[<<1>>].snapshot = <<"log">>
    /\ Registered("b") = <<"log">>
    /\ DOMAIN gor = {<<1>>, <<2>>, <<1, 1>>}
    /\ gor[<<1, 1>>].status = "done"
    /\ gor[<<1, 1>>].data = "p1"

\* The goroutines at a statement of Connect or Emit between Lock and
\* Unlock: the statements that read or write d.listeners, and the Unlock.
InCriticalSection ==
    {g \in DOMAIN gor : gor[g].call.pc \in {"append", "return", "read", "unlock"}}

\* The calls of Connect for signal s that have appended and not returned.
Returning(s) ==
    {g \in DOMAIN gor :
        /\ gor[g].call.fn = "Connect"
        /\ gor[g].call.pc = "return"
        /\ gor[g].call.signal = s}

\* C16: under every interleaving of concurrent calls of Connect and Emit
\* the listener table is read and written only by the goroutine that holds
\* the lock; no registration is lost: when n calls of Connect for a signal
\* have returned, the signal has exactly those n callbacks registered (and
\* one more for a call that has appended and not yet returned); and the
\* snapshot of every emission, which is all it invokes, is a prefix of the
\* registrations of its signal.
C16_ThreadSafe ==
    /\ \A g \in InCriticalSection : lock = g
    /\ \A s \in Signals :
          /\ IsPrefixOf(regs[s], Registered(s))
          /\ Len(Registered(s)) = Len(regs[s]) + Cardinality(Returning(s))
          /\ \A g \in Returning(s) :
                Registered(s)[Len(Registered(s))] = gor[g].call.callback
    /\ \A e \in DOMAIN ems :
          ems[e].read =>
              /\ IsPrefixOf(ems[e].snapshot, Registered(ems[e].signal))
              /\ \A id \in Started(e) :
                    /\ id[Len(id)] \in 1..Len(ems[e].snapshot)
                    /\ gor[id].cb = Registered(ems[e].signal)[id[Len(id)]]

\* One caller is in Connect, between its append and its return, a second
\* registration for "a" in hand, while the other caller waits for the lock
\* in Emit for the same signal.
C16_Witness ==
    /\ lock = <<1>>
    /\ gor[<<1>>].call.fn = "Connect"
    /\ gor[<<1>>].call.pc = "return"
    /\ gor[<<1>>].call.signal = "a"
    /\ gor[<<2>>].call.fn = "Emit"
    /\ gor[<<2>>].call.pc = "lock"
    /\ gor[<<2>>].call.signal = "a"
    /\ Len(regs["a"]) = 1
    /\ Len(Registered("a")) = 2

\* Goroutine g is inside a call of the dispatcher or has a callback to run
\* or to finish.
Busy(g) ==
    \/ gor[g].call.fn # "none"
    \/ gor[g].kind = "callback" /\ gor[g].status # "done"

\* The goroutine whose call of Emit started the callback goroutine g.
Emitter(g) == SubSeq(g, 1, Len(g) - 1)

\* C20: Emit holds the lock only while it takes its snapshot and never
\* while a callback runs, so that a callback which calls Connect or Emit
\* on the same dispatcher does not deadlock (as long as a goroutine is busy
\* one of the busy goroutines can take a step); the snapshot of an emission
\* is not changed by a later Connect, whose callback that emission does not
\* start; and every emission that takes its snapshot later holds every
\* callback whose Connect had returned by then, and has invoked them all
\* when it returns.
C20_LockOnlyForSnapshot ==
    /\ [](/\ \A g \in DOMAIN gor :
                /\ (gor[g].call.fn = "Emit" /\ gor[g].call.pc = "range")
                      => lock # g
                /\ (gor[g].kind = "callback" /\ gor[g].status # "done")
                      => lock # Emitter(g)
          /\ (\E g \in DOMAIN gor : Busy(g))
                => \E g \in DOMAIN gor : Busy(g) /\ ENABLED Step(g)
          /\ \A e \in DOMAIN ems :
                /\ \A id \in Started(e) : id[Len(id)] <= Len(ems[e].snapshot)
                /\ ems[e].returned =>
                      \A p \in 1..Len(ems[e].snapshot) :
                          /\ Append(e, p) \in Started(e)
                          /\ gor[Append(e, p)].status = "done")
    /\ [][\A e \in DOMAIN ems :
            /\ (e \in DOMAIN ems' /\ ems[e].read /\ ems'[e].read)
                  => ems'[e].snapshot = ems[e].snapshot
            /\ TakesSnapshot(e)
                  => IsPrefixOf(regs[ems[e].signal], ems'[e].snapshot)]_vars

\* The callback "join" of the first emission of "a" connected "log" while
\* that emission was under way: the first emission returned without having
\* started it, the emission of the other caller that came later ran both.
C20_Witness ==
    /\ calls = 3
    /\ DOMAIN ems = {<<1>>, <<2>>}
    /\ ems[<<1>>].signal = "a" /\ ems[<<2>>].signal = "a"
    /\ ems[<<1>>].returned /\ ems[<<2>>].returned
    /\ ems[<<1>>].snapshot = <<"join">>
    /\ Started(<<1>>) = {<<1, 1>>}
    /\ ems[<<2>>].snapshot = <<"join", "log">>
    /\ gor[<<2, 2>>].cb = "log" /\ gor[<<2, 2>>].status = "done"

====
